---- MODULE Spec2Model ----
(***************************************************************************)
(* One execution of the Streamlit script app.py: the environment check at  *)
(* module level, then main(): health probe, optional start of the backend, *)
(* the input widgets, the optional scrape of a job posting, the POST to    *)
(* /recommend and the rendering of its result.                             *)
(*                                                                         *)
(* Strings are sequences of one-character strings.  A Python value that    *)
(* may be None is a sequence of length at most one: None is <<>>, a        *)
(* present value v is <<v>>.                                               *)
(***************************************************************************)
EXTENDS Integers, Sequences, FiniteSets

\* ------------------------------------------------------------------ bounds
MaxList == 2
MaxDescLen == 3
MaxDuration == 2

\* ------------------------------------------------------- program constants
SliderMin == 3
SliderMax == 15
SliderDefault == 10
DefaultMaxResults == 10
StatusOK == 200

\* --------------------------------------------------------- Python helpers
None == <<>>
Some(v) == <<v>>

\* the "N/A" placeholder of the average-duration metric
NA == <<>>

RECURSIVE SeqsUpTo(_, _)
SeqsUpTo(S, n) ==
    IF n = 0 THEN {<<>>}
    ELSE LET shorter == SeqsUpTo(S, n - 1)
         IN  shorter \cup {Append(s, x) : s \in {t \in shorter : Len(t) = n - 1}, x \in S}

\* str.split(sep) for a one-character separator: the pieces between the
\* separators, always at least one piece
RECURSIVE SplitFrom(_, _, _, _)
SplitFrom(s, sep, i, cur) ==
    IF i > Len(s) THEN <<cur>>
    ELSE IF s[i] = sep THEN <<cur>> \o SplitFrom(s, sep, i + 1, <<>>)
    ELSE SplitFrom(s, sep, i + 1, Append(cur, s[i]))

Split(s, sep) == SplitFrom(s, sep, 1, <<>>)

\* sep.join(parts)
RECURSIVE Join(_, _)
Join(sep, parts) ==
    IF parts = <<>> THEN <<>>
    ELSE IF Len(parts) = 1 THEN parts[1]
    ELSE parts[1] \o sep \o Join(sep, Tail(parts))

RECURSIVE Sum(_)
Sum(s) == IF s = <<>> THEN 0 ELSE s[1] + Sum(Tail(s))

Range(s) == {s[i] : i \in DOMAIN s}

\* truthiness of an optional string (None and "" are falsy)
TruthyStrBug(q) == q # None
TruthyStr(q) == q # None /\ q[1] # <<>>

\* truthiness of an optional integer (None and 0 are falsy)
TruthyInt(d) == d # None /\ d[1] # 0

\* ------------------------------------------------------------ data domains
Chars == {"a", "."}
Descriptions == SeqsUpTo(Chars, MaxDescLen)
DurationValues == {None} \cup {Some(d) : d \in 0..MaxDuration}
TestTypeLists == {<<"K">>, <<"K", "P">>}

\* one entry of recommended_assessments (url, remote_support and
\* adaptive_support are copied to the card unchanged and are left out)
Items == [description : Descriptions, duration : DurationValues, test_type : TestTypeLists]
ResultLists == SeqsUpTo(Items, MaxList)

InputModes == {"Text Query", "Job Description URL"}
Texts == {<<>>, <<"j">>}
Urls == {<<>>, <<"u">>}
Messages == {<<>>, <<"x">>}

HealthOutcomes ==
    {[kind |-> "response", status |-> s] : s \in {StatusOK, 503}}
        \cup {[kind |-> "exception", status |-> 0]}

SpawnOutcomes == {[kind |-> "spawned", msg |-> <<>>]} \cup {[kind |-> "raised", msg |-> m] : m \in Messages}

\* what requests.get + BeautifulSoup give scrape_job_description: a page with
\* an optional description div and its <p> texts, or an exception
ScrapeOutcomes ==
    {[kind |-> "page", div |-> Some(t), paras |-> <<>>, msg |-> <<>>] : t \in Texts}
        \cup {[kind |-> "page", div |-> None, paras |-> ps, msg |-> <<>>] :
                 ps \in {<<>>, << <<"j">> >>, << <<"j">>, <<"j">> >>}}
        \cup {[kind |-> "exception", div |-> None, paras |-> <<>>, msg |-> m] : m \in Messages}

\* the lists the full runs answer with: up to MaxList entries out of four
\* sample entries (several sentences, one sentence with and without its
\* full stop, an empty headline; positive, absent and zero durations)
SampleItems ==
    { [description |-> <<"a", ".", "a">>, duration |-> Some(2), test_type |-> <<"K">>],
      [description |-> <<"a">>, duration |-> None, test_type |-> <<"K", "P">>],
      [description |-> <<"a", ".">>, duration |-> Some(0), test_type |-> <<"K">>],
      [description |-> <<".", "a">>, duration |-> Some(1), test_type |-> <<"K", "P">>] }
SampleLists == SeqsUpTo(SampleItems, MaxList)

\* what requests.post gives: a response with a status and, for 200, a body
\* (a list out of lists, or None when the body has no
\* recommended_assessments), or an exception
PostOutcomes(lists) ==
    {[kind |-> "response", status |-> StatusOK, body |-> Some(l)] : l \in lists}
        \cup {[kind |-> "response", status |-> StatusOK, body |-> None]}
        \cup {[kind |-> "response", status |-> s, body |-> None] : s \in {422, 500}}
        \cup {[kind |-> "exception", status |-> 0, body |-> None]}

\* ------------------------------------------------------------ UI elements
E(section, kind, body) == [section |-> section, kind |-> kind, body |-> body]

NoKeyError == E("env", "error", "OPENROUTER_API_KEY not found in environment")
StartingInfo == E("startup", "info", "Starting backend AI service...")
SpawnError(msg) == E("startup", "error", <<"Failed to start API: ", msg>>)
StartFailedError == E("startup", "error", "Failed to start API service")
Header == E("header", "markdown", "SHL Intelligent Recommendation System")
ApiError == E("recommendations", "error", "API error")
NoMatchWarning == E("recommendations", "warning", "No assessments found. Try refining your query.")
Footer == E("footer", "markdown", "SHL Intelligent Assessment System")

\* ------------------------------------------------- functions of the script
\* check_api_health: True exactly for an answer with status 200
check_api_healthBug(o) == o.kind = "response"
check_api_health(o) == o.kind = "response" /\ o.status = StatusOK

\* start_api_server: the Popen failure is caught, reported and turned into None
start_api_serverBug(o) ==
    IF o.kind = "spawned"
    THEN [ret |-> Some("process"), shown |-> <<>>, raised |-> FALSE]
    ELSE [ret |-> None, shown |-> <<>>, raised |-> TRUE]
start_api_server(o) ==
    IF o.kind = "spawned"
    THEN [ret |-> Some("process"), shown |-> <<>>, raised |-> FALSE]
    ELSE [ret |-> None, shown |-> <<SpawnError(o.msg)>>, raised |-> FALSE]

\* the range of st.slider("Max Recommendations", 3, 15, 10)
SliderRangeBug == 0..SliderMax
SliderRange == SliderMin..SliderMax

\* st.slider: the default until the user moves the control
st_slider(moved) == IF moved = None THEN SliderDefault ELSE moved[1]

ErrorPrefix == <<"E", "r", "r", "o", "r", ":", " ">>

\* scrape_job_description: the text of the description div, else the <p>
\* texts joined by a blank, else "Error: <exception>"
scrape_job_descriptionBug(o) ==
    IF o.kind = "exception" THEN <<>>
    ELSE IF o.div # None THEN o.div[1]
    ELSE Join(<<" ">>, o.paras)
scrape_job_description(o) ==
    IF o.kind = "exception" THEN ErrorPrefix \o o.msg
    ELSE IF o.div # None THEN o.div[1]
    ELSE Join(<<" ">>, o.paras)

\* the JSON body of the POST; max_results is the parameter's default when the
\* caller passes none
RequestBody(query, max_results) ==
    [query |-> query,
     max_results |-> IF max_results = None THEN DefaultMaxResults ELSE max_results[1]]

\* get_recommendations_from_api: the list of a 200 answer, else []; an
\* exception (transport, or a body without the list) is reported by st.error
get_recommendations_from_api(o) ==
    IF o.kind = "response" /\ o.status = StatusOK /\ o.body # None
    THEN [results |-> o.body[1], shown |-> <<>>]
    ELSE IF o.kind = "response" /\ o.status # StatusOK
    THEN [results |-> <<>>, shown |-> <<>>]
    ELSE [results |-> <<>>, shown |-> <<ApiError>>]

\* durations = [r["duration"] for r in results if r["duration"]]
RECURSIVE Durations(_)
Durations(results) ==
    IF results = <<>> THEN <<>>
    ELSE (IF TruthyInt(results[1].duration) THEN <<results[1].duration[1]>> ELSE <<>>)
             \o Durations(Tail(results))

\* test_types = [t for r in results for t in r["test_type"]]
RECURSIVE TestTypes(_)
TestTypes(results) ==
    IF results = <<>> THEN <<>>
    ELSE results[1].test_type \o TestTypes(Tail(results))

\* int(np.mean(durations)) if durations else "N/A"
AvgDuration(results) ==
    LET durations == Durations(results)
    IN  IF durations # <<>> THEN Some(Sum(durations) \div Len(durations)) ELSE NA

Metrics(results) ==
    << E("recommendations", "metric", [label |-> "Recommendations", value |-> Some(Len(results))]),
       E("recommendations", "metric",
         [label |-> "Unique Test Types", value |-> Some(Cardinality(Range(TestTypes(results))))]),
       E("recommendations", "metric", [label |-> "Avg Duration (mins)", value |-> AvgDuration(results)]) >>

\* the headline and the text under "Why this assessment?" of a card
Headline(description) == Split(description, ".")[1]
Why(description) == Join(<<".", " ">>, Tail(Split(description, ".")))

Card(number, a) ==
    E("recommendations", "card",
      [number |-> number,
       headline |-> Headline(a.description),
       badges |-> a.test_type,
       duration |-> a.duration,
       why |-> Why(a.description)])

\* for i, a in enumerate(results): one card each, numbered i+1
CardsBug(results) == [k \in 1..Len(results) |-> Card(k, results[Len(results) + 1 - k])]
Cards(results) == [k \in 1..Len(results) |-> Card(k, results[k])]

\* pd.Series(test_types).value_counts(): how often each test type occurs
Chart(results) ==
    LET test_types == TestTypes(results)
    IN  E("recommendations", "chart",
          [t \in Range(test_types) |-> Cardinality({i \in DOMAIN test_types : test_types[i] = t})])

\* what main renders for the received list (lines 217-278): the warning and
\* an early return, or metrics, cards, chart and footer
RenderResultsBug(results) ==
    IF results = <<>> THEN <<NoMatchWarning>> \o Metrics(results) \o <<Footer>>
    ELSE Metrics(results) \o Cards(results) \o <<Chart(results), Footer>>
RenderResults(results) ==
    IF results = <<>> THEN <<NoMatchWarning>>
    ELSE Metrics(results) \o Cards(results) \o <<Chart(results), Footer>>

\* ------------------------------------------------------------------ state
VARIABLES
    pc,            \* position of the run in the script
    healthLog,     \* answers of GET /health in this run, in order
    startCalls,    \* calls of start_api_server in this run
    startRet,      \* what start_api_server returned
    input_mode,    \* the radio button
    moved,         \* the slider position chosen by the user, None if untouched
    max_results,   \* the slider's value
    typed,         \* content of the text area or of the URL field
    run,           \* the button was pressed
    scraped,       \* what the fetch of the job posting gave, None if not fetched
    query,         \* main's query, None or a string
    posts,         \* JSON bodies POSTed to /recommend in this run, in order
    resp,          \* the answer to the POST, None before it
    results,       \* the list main renders
    ui             \* the elements rendered in this run, in order

vars == <<pc, healthLog, startCalls, startRet, input_mode, moved, max_results,
          typed, run, scraped, query, posts, resp, results, ui>>

Init ==
    /\ pc = "env"
    /\ healthLog = <<>>
    /\ startCalls = 0
    /\ startRet = None
    /\ input_mode = "Text Query"
    /\ moved = None
    /\ max_results = SliderDefault
    /\ typed = <<>>
    /\ run = FALSE
    /\ scraped = None
    /\ query = None
    /\ posts = <<>>
    /\ resp = None
    /\ results = <<>>
    /\ ui = <<>>

\* lines 90-95: without the API key the script reports it and stops
CheckEnv ==
    /\ pc = "env"
    /\ \E keyPresent \in BOOLEAN :
          IF keyPresent
          THEN pc' = "health" /\ ui' = ui
          ELSE pc' = "stopped" /\ ui' = Append(ui, NoKeyError)
    /\ UNCHANGED <<healthLog, startCalls, startRet, input_mode, moved, max_results,
                   typed, run, scraped, query, posts, resp, results>>

\* lines 163-164: the first probe
FirstHealthCheck ==
    /\ pc = "health"
    /\ \E o \in HealthOutcomes :
          /\ healthLog' = Append(healthLog, o)
          /\ IF check_api_health(o)
             THEN pc' = "inputs" /\ ui' = ui
             ELSE pc' = "start" /\ ui' = Append(ui, StartingInfo)
    /\ UNCHANGED <<startCalls, startRet, input_mode, moved, max_results,
                   typed, run, scraped, query, posts, resp, results>>

\* line 165: start_api_server(); its value is dropped by main
StartApiServer ==
    /\ pc = "start"
    /\ \E o \in SpawnOutcomes :
          LET r == start_api_server(o)
          IN  /\ startCalls' = startCalls + 1
              /\ startRet' = r.ret
              /\ ui' = ui \o r.shown
              /\ pc' = IF r.raised THEN "crashed" ELSE "recheck"
    /\ UNCHANGED <<healthLog, input_mode, moved, max_results,
                   typed, run, scraped, query, posts, resp, results>>

\* lines 166-168: the second probe; st.stop() ends the run
SecondHealthCheck ==
    /\ pc = "recheck"
    /\ \E o \in HealthOutcomes :
          /\ healthLog' = Append(healthLog, o)
          /\ IF check_api_health(o)
             THEN pc' = "inputs" /\ ui' = ui
             ELSE pc' = "stopped" /\ ui' = Append(ui, StartFailedError)
    /\ UNCHANGED <<startCalls, startRet, input_mode, moved, max_results,
                   typed, run, scraped, query, posts, resp, results>>

\* lines 173-205: header, sidebar controls, the input widget and the button
RenderInputs ==
    /\ pc = "inputs"
    /\ \E mode \in InputModes, mv \in {None} \cup {Some(v) : v \in SliderRange},
          pressed \in BOOLEAN, t \in Texts \cup Urls :
          /\ mode = "Text Query" => t \in Texts
          /\ mode = "Job Description URL" => t \in Urls
          /\ input_mode' = mode
          /\ moved' = mv
          /\ max_results' = st_slider(mv)
          /\ typed' = t
          /\ run' = pressed
          /\ query' = IF mode = "Text Query" THEN Some(t) ELSE None
          /\ ui' = ui \o << Header,
                            E("sidebar", "radio", mode),
                            E("sidebar", "slider", st_slider(mv)),
                            E("input", IF mode = "Text Query" THEN "text_area" ELSE "text_input", t),
                            E("input", "button", pressed) >>
          /\ pc' = IF mode = "Job Description URL" /\ pressed /\ t # <<>>
                   THEN "scrape" ELSE "recommend"
    /\ UNCHANGED <<healthLog, startCalls, startRet, scraped, posts, resp, results>>

\* lines 205-208: fetch the posting and show the extracted text
ScrapeJobDescription ==
    /\ pc = "scrape"
    /\ \E o \in ScrapeOutcomes :
          /\ scraped' = Some(o)
          /\ query' = Some(scrape_job_description(o))
          /\ ui' = Append(ui, E("input", "text_area", scrape_job_description(o)))
    /\ pc' = "recommend"
    /\ UNCHANGED <<healthLog, startCalls, startRet, input_mode, moved, max_results,
                   typed, run, posts, resp, results>>

\* line 213 false: nothing is requested, the footer closes the page
SkipRecommendations ==
    /\ pc = "recommend"
    /\ ~(run /\ TruthyStr(query))
    /\ ui' = Append(ui, Footer)
    /\ pc' = "done"
    /\ UNCHANGED <<healthLog, startCalls, startRet, input_mode, moved, max_results,
                   typed, run, scraped, query, posts, resp, results>>

\* lines 213-215: the POST to /recommend
GetRecommendations ==
    /\ pc = "recommend"
    /\ run /\ TruthyStr(query)
    /\ posts' = Append(posts, RequestBody(query[1], Some(max_results)))
    /\ \E o \in PostOutcomes(SampleLists) :
          LET r == get_recommendations_from_api(o)
          IN  /\ resp' = Some(o)
              /\ results' = r.results
              /\ ui' = ui \o r.shown
    /\ pc' = "render"
    /\ UNCHANGED <<healthLog, startCalls, startRet, input_mode, moved, max_results,
                   typed, run, scraped, query>>

\* lines 217-278: the warning, or metrics, cards, chart and footer
ShowResults ==
    /\ pc = "render"
    /\ ui' = ui \o RenderResults(results)
    /\ pc' = "done"
    /\ UNCHANGED <<healthLog, startCalls, startRet, input_mode, moved, max_results,
                   typed, run, scraped, query, posts, resp, results>>

\* Streamlit executes the script again on the next interaction
Rerun ==
    /\ pc \in {"done", "stopped"}
    /\ pc' = "env"
    /\ healthLog' = <<>>
    /\ startCalls' = 0
    /\ startRet' = None
    /\ input_mode' = "Text Query"
    /\ moved' = None
    /\ max_results' = SliderDefault
    /\ typed' = <<>>
    /\ run' = FALSE
    /\ scraped' = None
    /\ query' = None
    /\ posts' = <<>>
    /\ resp' = None
    /\ results' = <<>>
    /\ ui' = <<>>

Next ==
    \/ CheckEnv
    \/ FirstHealthCheck
    \/ StartApiServer
    \/ SecondHealthCheck
    \/ RenderInputs
    \/ ScrapeJobDescription
    \/ SkipRecommendations
    \/ GetRecommendations
    \/ ShowResults
    \/ Rerun

Spec == Init /\ [][Next]_vars

\* The rendering of every list of up to MaxList entries over Items: the runs
\* start where a run of Spec stands when the answer to its POST has arrived
\* (backend healthy at once, text query "j", slider untouched).
InitRender ==
    /\ pc = "render"
    /\ healthLog = <<[kind |-> "response", status |-> StatusOK]>>
    /\ startCalls = 0
    /\ startRet = None
    /\ input_mode = "Text Query"
    /\ moved = None
    /\ max_results = st_slider(None)
    /\ typed = <<"j">>
    /\ run = TRUE
    /\ scraped = None
    /\ query = Some(<<"j">>)
    /\ posts = <<RequestBody(<<"j">>, Some(st_slider(None)))>>
    /\ \E o \in PostOutcomes(ResultLists) :
          /\ resp = Some(o)
          /\ results = get_recommendations_from_api(o).results
          /\ ui = << Header,
                     E("sidebar", "radio", "Text Query"),
                     E("sidebar", "slider", st_slider(None)),
                     E("input", "text_area", <<"j">>),
                     E("input", "button", TRUE) >> \o get_recommendations_from_api(o).shown

SpecRender == InitRender /\ [][ShowResults]_vars

\* ------------------------------------------------------------ properties
Section(sec) == SelectSeq(ui, LAMBDA e : e.section = sec)
OfKind(kind) == SelectSeq(ui, LAMBDA e : e.kind = kind)
Kinds(elements) == [i \in DOMAIN elements |-> elements[i].kind]
MetricsLabelled(label) == SelectSeq(OfKind("metric"), LAMBDA e : e.body.label = label)

Answered200(o) == o.kind = "response" /\ o.status = 200
RequestFailed(o) == o.kind = "exception" \/ (o.kind = "response" /\ o.status # 200)
AnsweredEmptyList(o) == o.kind = "response" /\ o.status = 200 /\ o.body = Some(<<>>)
AnsweredList(o) == o.kind = "response" /\ o.status = 200 /\ o.body # None
StartsWith(s, prefix) == Len(s) >= Len(prefix) /\ SubSeq(s, 1, Len(prefix)) = prefix

\* C1: when the POST failed (non-200 status or exception), what the finished
\* run shows for the request is not just the "No assessments found" warning,
\* which is what a 200 answer with an empty list shows.
C1_FailureDistinguishable ==
    (pc = "done" /\ resp # None /\ RequestFailed(resp[1]))
        => Kinds(Section("recommendations")) # <<"warning">>

\* C2: a POST is in the run only if a GET /health of the run answered 200;
\* when both probes failed the run is stopped, has posted nothing and has
\* rendered no sidebar or input widget.
C2_PostOnlyAfterHealthy ==
    /\ posts # <<>> => \E i \in DOMAIN healthLog : Answered200(healthLog[i])
    /\ (Len(healthLog) = 2 /\ ~Answered200(healthLog[1]) /\ ~Answered200(healthLog[2]))
           => /\ pc = "stopped"
              /\ posts = <<>>
              /\ Section("sidebar") = <<>>
              /\ Section("input") = <<>>

C2_Witness ==
    /\ posts # <<>>
    /\ Len(healthLog) = 2
    /\ ~Answered200(healthLog[1])
    /\ Answered200(healthLog[2])

\* C3: every POSTed max_results is an integer in 1..50; it is 10 when the
\* slider was not moved, and 10 when the function is called without it.
C3_MaxResultsInRange ==
    \A i \in DOMAIN posts :
        /\ posts[i].max_results \in 1..50
        /\ moved = None => posts[i].max_results = 10
        /\ moved # None => posts[i].max_results = moved[1]
        /\ RequestBody(posts[i].query, None).max_results = 10

C3_Witness ==
    /\ posts # <<>>
    /\ moved = Some(SliderMin)

\* C4: a POST needs the button pressed in this run and a non-empty query;
\* with the button not pressed, an empty text area, an empty URL or an empty
\* extracted text the finished run has posted nothing and rendered nothing
\* in the recommendations section.
NoQueryCase ==
    \/ ~run
    \/ input_mode = "Text Query" /\ typed = <<>>
    \/ input_mode = "Job Description URL" /\ typed = <<>>
    \/ input_mode = "Job Description URL" /\ scraped # None /\ query = Some(<<>>)

C4_RequestNeedsButtonAndQuery ==
    /\ Len(posts) <= 1
    /\ posts # <<>> => run /\ posts[1].query # <<>> /\ query = Some(posts[1].query)
    /\ (pc = "done" /\ NoQueryCase)
           => /\ posts = <<>>
              /\ Section("recommendations") = <<>>
              /\ OfKind("warning") = <<>>
              /\ OfKind("chart") = <<>>

C4_Witness ==
    /\ pc = "done"
    /\ run
    /\ input_mode = "Job Description URL"
    /\ typed # <<>>
    /\ scraped # None
    /\ query = Some(<<>>)
    /\ posts = <<>>

\* C5: for a 200 answer with an empty list the finished run shows, for the
\* request, exactly the "refine your query" warning: no error, and no
\* metric, card or chart anywhere on the page.
C5_EmptyListIsNoMatch ==
    (pc = "done" /\ resp # None /\ AnsweredEmptyList(resp[1]))
        => /\ Kinds(Section("recommendations")) = <<"warning">>
           /\ Section("recommendations")[1] = NoMatchWarning
           /\ OfKind("metric") = <<>>
           /\ OfKind("card") = <<>>
           /\ OfKind("chart") = <<>>

C5_Witness ==
    /\ pc = "done"
    /\ resp # None
    /\ AnsweredEmptyList(resp[1])

\* C6: for a received list of n entries the finished run shows n cards, card
\* k showing entry k of the list as received (nothing filtered, reordered,
\* duplicated or cut), the "Recommendations" metric, shown when n > 0, is n,
\* and the list main holds is still the received one.
C6_CardsMirrorList ==
    (pc = "done" /\ resp # None /\ AnsweredList(resp[1]))
        => LET received == resp[1].body[1]
               cards == OfKind("card")
           IN  /\ Len(cards) = Len(received)
               /\ \A k \in DOMAIN cards :
                     /\ cards[k].body.number = k
                     /\ cards[k].body.headline = Headline(received[k].description)
                     /\ cards[k].body.why = Why(received[k].description)
                     /\ cards[k].body.badges = received[k].test_type
                     /\ cards[k].body.duration = received[k].duration
               /\ received # <<>> =>
                     /\ Len(MetricsLabelled("Recommendations")) = 1
                     /\ MetricsLabelled("Recommendations")[1].body.value = Some(Len(received))
               /\ results = received

C6_Witness ==
    /\ pc = "done"
    /\ Len(results) = MaxList
    /\ results[1] # results[MaxList]
    /\ Len(OfKind("card")) = MaxList

\* C7: the text under "Why this assessment?" of every rendered card is a
\* non-empty string.
C7_JustificationNonEmpty ==
    \A i \in DOMAIN ui : ui[i].kind = "card" => ui[i].body.why # <<>>

\* C8: the "Avg Duration (mins)" metric is the truncated mean over the
\* entries whose duration is not null (0 counts), and "N/A" exactly when no
\* entry has a duration.
PresentDurations(list) ==
    LET present == SelectSeq(list, LAMBDA r : r.duration # None)
    IN  [i \in DOMAIN present |-> present[i].duration[1]]

C8_AvgOverPresentDurations ==
    (pc = "done" /\ results # <<>>)
        => /\ Len(MetricsLabelled("Avg Duration (mins)")) = 1
           /\ MetricsLabelled("Avg Duration (mins)")[1].body.value =
                 IF PresentDurations(results) = <<>> THEN NA
                 ELSE Some(Sum(PresentDurations(results)) \div Len(PresentDurations(results)))

\* C9: when the fetch of the posting raised, the query is "Error: " followed
\* by the exception's text, and the run POSTs it like any extracted text.
C9_ScrapeErrorBecomesQuery ==
    (scraped # None /\ scraped[1].kind = "exception")
        => /\ pc \in {"recommend", "render", "done"}
           /\ query # None
           /\ StartsWith(query[1], <<"E", "r", "r", "o", "r", ":", " ">>)
           /\ query[1] = <<"E", "r", "r", "o", "r", ":", " ">> \o scraped[1].msg
           /\ pc \in {"render", "done"} =>
                 posts = <<[query |-> query[1], max_results |-> max_results]>>

C9_Witness ==
    /\ pc = "done"
    /\ scraped # None
    /\ scraped[1].kind = "exception"
    /\ posts # <<>>

\* C10: start_api_server is called at most once and only after a failed
\* probe; it never raises, a failed spawn gives None and an error message;
\* after the second probe the run is stopped exactly when that probe failed.
C10_StartOnceAfterFailedProbe ==
    /\ startCalls <= 1
    /\ startCalls = 1 => healthLog # <<>> /\ ~Answered200(healthLog[1])
    /\ pc # "crashed"
    /\ (startCalls = 1 /\ startRet = None) => Kinds(Section("startup")) # <<"info">>
    /\ Len(healthLog) = 2 => (startCalls = 1 /\ (pc = "stopped" <=> ~Answered200(healthLog[2])))

C10_Witness ==
    /\ startCalls = 1
    /\ startRet = None
    /\ Len(healthLog) = 2
    /\ posts # <<>>

====
